---- MODULE Spec2Model ----
(***************************************************************************)
(* State-machine model of the BUDDY React front end (alharuty/PXI-G1).     *)
(*                                                                         *)
(* Two specifications share this module:                                   *)
(*   Spec      the generation / RAG panels.  Exactly one panel component   *)
(*             is mounted at a time (one route element, one ScientificRAG  *)
(*             tab), so the panels that are not mounted hold their         *)
(*             useState defaults.                                          *)
(*   SpecAuth  session, route guard, register, profile editor and the      *)
(*             profile document store.                                     *)
(*                                                                         *)
(* Text is a sequence of string tokens: '' is <<>>, a template literal is  *)
(* the concatenation of its pieces, and JavaScript truthiness of a string  *)
(* is "not <<>>".  A missing (undefined) response field is <<>> as well:   *)
(* the code only ever tests such fields for truthiness.                    *)
(***************************************************************************)
EXTENDS Integers, Sequences, FiniteSets, TLC

(***************************************************************************)
(* Bounds of the model.                                                    *)
(***************************************************************************)
\* requests one mounted panel instance issues before the model stops issuing
MaxRequests == 3
\* longest article list the backend returns
MaxArticles == 4
\* Firebase calls (other than the profile fetch) awaiting their outcome at once
MaxPending == 1

(***************************************************************************)
(* Values typed by the user and returned by the collaborators.             *)
(***************************************************************************)
Empty == <<>>
\* what the user types into a prompt / question / search box
PromptValues == {Empty, <<" ">>, <<"p1">>}
IsSpace(t) == t = " "
RECURSIVE TrimStart(_)
TrimStart(s) == IF s = Empty THEN s
                ELSE IF IsSpace(Head(s)) THEN TrimStart(Tail(s)) ELSE s
RECURSIVE TrimEnd(_)
TrimEnd(s) == IF s = Empty THEN s
              ELSE IF IsSpace(s[Len(s)]) THEN TrimEnd(SubSeq(s, 1, Len(s) - 1)) ELSE s
\* String.prototype.trim
Trim(s) == TrimEnd(TrimStart(s))
Truthy(s) == s # Empty
\* a || b on strings
OrElse(a, b) == IF Truthy(a) THEN a ELSE b
StartsWith(s, p) == Len(s) >= 1 /\ s[1] = p

API_BASE_URL == "http://localhost:8000"
\* error.response.data?.detail as sent by the backend (absent or a message)
Details == {Empty, <<"detail-A">>}
\* HTTP status of an error response
ErrorStatuses == {404, 500}
\* error.message of an exception that is neither a response nor a request error
ErrorMessages == {<<"boom">>}
\* what an awaited axios call rejects with: the backend answered with an error
\* status (error.response), the request got no response (error.request only),
\* or something else was thrown
ErrorResponse(status, detail) ==
  [kind |-> "response", status |-> status, detail |-> detail,
   message |-> <<"Request failed with status code ", ToString(status)>>]
NoResponse ==
  [kind |-> "request", status |-> 0, detail |-> Empty, message |-> <<"Network Error">>]
OtherError(message) ==
  [kind |-> "other", status |-> 0, detail |-> Empty, message |-> message]
AxiosErrors ==
  {ErrorResponse(status, detail) : status \in ErrorStatuses, detail \in Details}
    \cup {NoResponse} \cup {OtherError(message) : message \in ErrorMessages}

Panels == {"TextGenerator", "ImageGenerator", "PromptForm",
           "KnowledgeQA", "ResponseComparison", "ArticleSearch"}
GenerationPanels == Panels \ {"ArticleSearch"}

VARIABLES
  activePanel,        \* the panel component that is mounted
  textGenerator,      \* useState fields of TextGenerator
  imageGenerator,     \* useState fields of ImageGenerator
  promptForm,         \* useState fields of PromptForm
  knowledgeQA,        \* useState fields of KnowledgeQA
  responseComparison, \* useState fields of ResponseComparison
  articleSearch,      \* useState fields of ArticleSearch
  inflight,           \* axios requests of the mounted instance awaiting an outcome
  nextId,             \* identity of the next request (promise) to be issued
  abandoned,          \* history: ids in flight when the panel was cleared
  alertMsg            \* text of the last window.alert
panelState == <<activePanel, textGenerator, imageGenerator, promptForm, knowledgeQA,
                responseComparison, articleSearch, inflight, nextId, abandoned>>

VARIABLES
  authUser,      \* auth.currentUser of the Firebase Auth collaborator
  accounts,      \* credentials the Auth collaborator holds
  users,         \* Firestore collection "users": uid -> <<>> or <<document>>
  user,          \* useAuthState(auth)[0]
  loading,       \* useAuthState(auth)[1]
  path,          \* location.pathname
  mode,          \* AuthPage: "login" or "register"
  form,          \* Register: the form fields
  login,         \* Login: email and password
  profile,       \* Profile: userInfo, isEditing, isSaving
  pending,       \* Firebase calls awaiting their outcome
  signedUp,      \* history: <<fields submitted by the accepted sign-up>>
  lastSave       \* history: <<userInfo of the last profile write, if a handleSave>>
authState == <<authUser, accounts, users, user, loading, path, mode, form, login,
               profile, pending, signedUp, lastSave>>

vars == <<panelState, alertMsg, authState>>

\* A request in flight: its identity, the handler that awaits it, the URL and
\* the user text it carries (topic / tema / prompt / query), and for the
\* add-to-vector-db call the forwarded articles.
Request(op, url, text, body) ==
  [id |-> nextId, op |-> op, url |-> API_BASE_URL \o url, text |-> text, body |-> body]
InFlight(op) == {r \in inflight : r.op = op}
CanIssue == nextId <= MaxRequests
\* the answer the backend computes for request r (opaque, tagged by the request)
Answer(kind, r) == <<kind \o "#" \o ToString(r.id)>>

TextGeneratorInit == [prompt |-> Empty, generatedText |-> Empty, isGenerating |-> FALSE]
ImageGeneratorInit == [prompt |-> Empty, generatedImage |-> Empty, imageUrl |-> Empty,
                       isGenerating |-> FALSE]
PromptFormInit == [prompt |-> Empty, language |-> "es", coinName |-> Empty,
                   response |-> Empty, isLoading |-> FALSE]
KnowledgeQAInit == [question |-> Empty, response |-> Empty, sourceDocuments |-> <<>>,
                    documentsUsed |-> 0, isLoading |-> FALSE, connectionStatus |-> "unknown"]
ResponseComparisonInit == [question |-> Empty, ragResponse |-> Empty, simpleResponse |-> Empty,
                           ragDocuments |-> <<>>, documentsUsed |-> 0, isLoading |-> FALSE,
                           connectionStatus |-> "unknown", comparisonMetrics |-> "null"]
ArticleSearchInit == [searchTerm |-> Empty, isSearching |-> FALSE, articles |-> <<>>,
                      selectedArticles |-> <<>>, isAddingToDb |-> FALSE]

\* every panel at its useState defaults, no request issued yet
PanelsInit ==
  /\ textGenerator = TextGeneratorInit
  /\ imageGenerator = ImageGeneratorInit
  /\ promptForm = PromptFormInit
  /\ knowledgeQA = KnowledgeQAInit
  /\ responseComparison = ResponseComparisonInit
  /\ articleSearch = ArticleSearchInit
  /\ inflight = {}
  /\ nextId = 1
  /\ abandoned = {}
  /\ alertMsg = Empty

\* Navbar navigate(item.path) / ScientificRAG setActiveTab: the mounted panel is
\* torn down and another one is mounted with fresh state.  React drops the
\* state updates of an unmounted component, so its requests leave the model.
SwitchPanel(p) ==
  /\ p # activePanel
  /\ activePanel' = p
  /\ textGenerator' = TextGeneratorInit
  /\ imageGenerator' = ImageGeneratorInit
  /\ promptForm' = PromptFormInit
  /\ knowledgeQA' = KnowledgeQAInit
  /\ responseComparison' = ResponseComparisonInit
  /\ articleSearch' = ArticleSearchInit
  /\ inflight' = {}
  /\ nextId' = 1
  /\ abandoned' = {}
  /\ UNCHANGED alertMsg

(***************************************************************************)
(* TextGenerator                                                           *)
(***************************************************************************)
TextGenerator_others == <<imageGenerator, promptForm, knowledgeQA, responseComparison,
                          articleSearch, activePanel>>

TextGenerator_setPrompt(v) ==
  /\ activePanel = "TextGenerator"
  /\ v # textGenerator.prompt
  /\ textGenerator' = [textGenerator EXCEPT !.prompt = v]
  /\ UNCHANGED <<TextGenerator_others, inflight, nextId, abandoned, alertMsg>>

\* disabled={!prompt.trim() || isGenerating}
TextGenerator_disabled ==
  ~Truthy(Trim(textGenerator.prompt)) \/ textGenerator.isGenerating

\* click on "Generar Texto": handleGenerate up to its await
TextGenerator_handleGenerate ==
  /\ activePanel = "TextGenerator"
  /\ ~TextGenerator_disabled
  /\ CanIssue
  /\ textGenerator' = [textGenerator EXCEPT !.isGenerating = TRUE]
  /\ inflight' = inflight \cup {Request("generate", "/generate", textGenerator.prompt, <<>>)}
  /\ nextId' = nextId + 1
  /\ UNCHANGED <<TextGenerator_others, abandoned, alertMsg>>

TextGenerator_error404 ==
  <<"Error: El servidor no se encuentra disponible. Verifica que el backend este corriendo en ",
    "http://localhost:8000">>
TextGenerator_errorOther == <<"Error al generar el texto. Por favor, intenta nuevamente.">>

\* the text the catch block shows: error.response?.status === 404 or not
TextGenerator_errorText(error) ==
  IF error.kind = "response" /\ error.status = 404 THEN TextGenerator_error404
  ELSE TextGenerator_errorOther

\* handleGenerate after its await, the request answered
TextGenerator_resolved(r) ==
  /\ activePanel = "TextGenerator"
  /\ r \in InFlight("generate")
  /\ \E content \in {Empty, Answer("content", r)} :
        textGenerator' = [textGenerator EXCEPT !.generatedText = content,
                                               !.isGenerating = FALSE]
  /\ inflight' = inflight \ {r}
  /\ abandoned' = abandoned \ {r.id}
  /\ UNCHANGED <<TextGenerator_others, nextId, alertMsg>>

\* handleGenerate after its await, the request rejected with error: the catch block
TextGenerator_rejected(r, error) ==
  /\ activePanel = "TextGenerator"
  /\ r \in InFlight("generate")
  /\ textGenerator' = [textGenerator EXCEPT
        !.generatedText = TextGenerator_errorText(error), !.isGenerating = FALSE]
  /\ inflight' = inflight \ {r}
  /\ abandoned' = abandoned \ {r.id}
  /\ UNCHANGED <<TextGenerator_others, nextId, alertMsg>>

\* handleGenerate after its await: the response or the catch block
TextGenerator_settle(r) ==
  \/ TextGenerator_resolved(r)
  \/ \E error \in AxiosErrors : TextGenerator_rejected(r, error)

\* "Limpiar" under the result: onClick={() => setGeneratedText('')}
TextGenerator_limpiar ==
  /\ activePanel = "TextGenerator"
  /\ Truthy(textGenerator.generatedText)
  /\ textGenerator' = [textGenerator EXCEPT !.generatedText = Empty]
  /\ abandoned' = abandoned \cup {r.id : r \in inflight}
  /\ UNCHANGED <<TextGenerator_others, inflight, nextId, alertMsg>>

TextGeneratorNext ==
  \/ \E v \in PromptValues : TextGenerator_setPrompt(v)
  \/ TextGenerator_handleGenerate
  \/ \E r \in inflight : TextGenerator_settle(r)
  \/ TextGenerator_limpiar

(***************************************************************************)
(* ImageGenerator                                                          *)
(***************************************************************************)
ImageGenerator_others == <<textGenerator, promptForm, knowledgeQA, responseComparison,
                           articleSearch, activePanel>>

ImageGenerator_setPrompt(v) ==
  /\ activePanel = "ImageGenerator"
  /\ v # imageGenerator.prompt
  /\ imageGenerator' = [imageGenerator EXCEPT !.prompt = v]
  /\ UNCHANGED <<ImageGenerator_others, inflight, nextId, abandoned, alertMsg>>

\* disabled={!prompt.trim() || isGenerating}
ImageGenerator_disabled ==
  ~Truthy(Trim(imageGenerator.prompt)) \/ imageGenerator.isGenerating

\* click on "Generar Imagen": handleGenerate up to its await
ImageGenerator_handleGenerate ==
  /\ activePanel = "ImageGenerator"
  /\ ~ImageGenerator_disabled
  /\ IF ~Truthy(Trim(imageGenerator.prompt))
     THEN /\ alertMsg' = <<"Por favor describe la imagen que quieres crear">>
          /\ UNCHANGED <<imageGenerator, inflight, nextId>>
     ELSE /\ CanIssue
          /\ imageGenerator' = [imageGenerator EXCEPT !.isGenerating = TRUE,
                                                      !.generatedImage = Empty,
                                                      !.imageUrl = Empty]
          /\ inflight' = inflight \cup
                {Request("generate-image", "/generate-image", imageGenerator.prompt, <<>>)}
          /\ nextId' = nextId + 1
          /\ UNCHANGED alertMsg
  /\ UNCHANGED <<ImageGenerator_others, abandoned>>

\* handleGenerate after its await: the response, or the catch block, then finally
ImageGenerator_resolved(r) ==
  /\ activePanel = "ImageGenerator"
  /\ r \in InFlight("generate-image")
  /\ \E imagen \in {Empty, Answer("imagen", r)},
        url_supabase \in {Empty, Answer("url", r)} :
          imageGenerator' = [imageGenerator EXCEPT
                !.generatedImage = IF Truthy(imagen)
                                   THEN <<"data:image/png;base64,">> \o imagen ELSE @,
                !.imageUrl = IF Truthy(url_supabase) THEN url_supabase ELSE @,
                !.isGenerating = FALSE]
  /\ inflight' = inflight \ {r}
  /\ abandoned' = abandoned \ {r.id}
  /\ UNCHANGED <<ImageGenerator_others, nextId, alertMsg>>

\* the result section: {generatedImage && (<div> <img src={generatedImage} /> ...
ImageGenerator_resultShown == Truthy(imageGenerator.generatedImage)
\* "Ver en Supabase", inside the result section: {imageUrl && (<button ...
ImageGenerator_linkShown ==
  ImageGenerator_resultShown /\ Truthy(imageGenerator.imageUrl)

\* the text the catch block of handleGenerate alerts
ImageGenerator_errorText(error) ==
  IF error.kind = "response"
  THEN <<"Error: ">> \o OrElse(error.detail, <<"Error del servidor al generar la imagen">>)
  ELSE IF error.kind = "request"
  THEN <<"Error de conexion. Verifica que el servidor este funcionando.">>
  ELSE <<"Error inesperado al generar la imagen.">>

\* handleGenerate after its await, the request rejected with error: catch and finally
ImageGenerator_rejected(r, error) ==
  /\ activePanel = "ImageGenerator"
  /\ r \in InFlight("generate-image")
  /\ alertMsg' = ImageGenerator_errorText(error)
  /\ imageGenerator' = [imageGenerator EXCEPT !.isGenerating = FALSE]
  /\ inflight' = inflight \ {r}
  /\ abandoned' = abandoned \ {r.id}
  /\ UNCHANGED <<ImageGenerator_others, nextId>>

\* handleGenerate after its await: the response, or the catch block, then finally
ImageGenerator_settleGenerate(r) ==
  \/ ImageGenerator_resolved(r)
  \/ \E error \in AxiosErrors : ImageGenerator_rejected(r, error)

\* click on "Ver Ultima Imagen" (never disabled): handleGetLastImage up to its await
ImageGenerator_handleGetLastImage ==
  /\ activePanel = "ImageGenerator"
  /\ CanIssue
  /\ inflight' = inflight \cup {Request("last-image", "/last-image", Empty, <<>>)}
  /\ nextId' = nextId + 1
  /\ UNCHANGED <<imageGenerator, ImageGenerator_others, abandoned, alertMsg>>

ImageGenerator_publicUrl ==
  <<"https://your-supabase-url.supabase.co/storage/v1/object/public/imagenes/">>

\* handleGetLastImage after its await
ImageGenerator_settleGetLastImage(r) ==
  /\ activePanel = "ImageGenerator"
  /\ r \in InFlight("last-image")
  /\ \/ \E filename \in {Empty, <<"http">> \o Answer("last", r), Answer("last", r)} :
          /\ imageGenerator' =
               IF ~Truthy(filename) THEN imageGenerator
               ELSE IF StartsWith(filename, "http")
                    THEN [imageGenerator EXCEPT !.imageUrl = filename,
                                                !.generatedImage = filename]
                    ELSE [imageGenerator EXCEPT
                            !.imageUrl = ImageGenerator_publicUrl \o filename,
                            !.generatedImage = ImageGenerator_publicUrl \o filename]
          /\ UNCHANGED alertMsg
     \/ /\ alertMsg' = <<"Error al obtener la ultima imagen generada">>
        /\ UNCHANGED imageGenerator
  /\ inflight' = inflight \ {r}
  /\ abandoned' = abandoned \ {r.id}
  /\ UNCHANGED <<ImageGenerator_others, nextId>>

\* "Limpiar" under the result, rendered only while generatedImage is set
ImageGenerator_limpiar ==
  /\ activePanel = "ImageGenerator"
  /\ Truthy(imageGenerator.generatedImage)
  /\ imageGenerator' = [imageGenerator EXCEPT !.generatedImage = Empty, !.imageUrl = Empty]
  /\ abandoned' = abandoned \cup {r.id : r \in inflight}
  /\ UNCHANGED <<ImageGenerator_others, inflight, nextId, alertMsg>>

ImageGeneratorNext ==
  \/ \E v \in PromptValues : ImageGenerator_setPrompt(v)
  \/ ImageGenerator_handleGenerate
  \/ \E r \in inflight : ImageGenerator_settleGenerate(r)
  \/ ImageGenerator_handleGetLastImage
  \/ \E r \in inflight : ImageGenerator_settleGetLastImage(r)
  \/ ImageGenerator_limpiar

(***************************************************************************)
(* PromptForm (financial analysis, route /agente)                          *)
(***************************************************************************)
PromptForm_others == <<textGenerator, imageGenerator, knowledgeQA, responseComparison,
                       articleSearch, activePanel>>
Languages == {"es", "en"}
CoinNames == {Empty, <<"Bitcoin">>}

PromptForm_setPrompt(v) ==
  /\ activePanel = "PromptForm"
  /\ v # promptForm.prompt
  /\ promptForm' = [promptForm EXCEPT !.prompt = v]
  /\ UNCHANGED <<PromptForm_others, inflight, nextId, abandoned, alertMsg>>

PromptForm_setLanguage(l) ==
  /\ activePanel = "PromptForm"
  /\ l # promptForm.language
  /\ promptForm' = [promptForm EXCEPT !.language = l]
  /\ UNCHANGED <<PromptForm_others, inflight, nextId, abandoned, alertMsg>>

PromptForm_setCoinName(c) ==
  /\ activePanel = "PromptForm"
  /\ c # promptForm.coinName
  /\ promptForm' = [promptForm EXCEPT !.coinName = c]
  /\ UNCHANGED <<PromptForm_others, inflight, nextId, abandoned, alertMsg>>

\* submit button: disabled={!prompt.trim() || isLoading}; a form whose default
\* button is disabled is not submitted by Enter either
PromptForm_disabled == ~Truthy(Trim(promptForm.prompt)) \/ promptForm.isLoading

\* form onSubmit: handleSubmit up to its await
PromptForm_handleSubmit ==
  /\ activePanel = "PromptForm"
  /\ ~PromptForm_disabled
  /\ CanIssue
  /\ promptForm' = [promptForm EXCEPT !.isLoading = TRUE]
  /\ inflight' = inflight \cup {Request("news-nlp", "/news-nlp", promptForm.prompt, <<>>)}
  /\ nextId' = nextId + 1
  /\ UNCHANGED <<PromptForm_others, abandoned, alertMsg>>

PromptForm_error == <<"Ocurrio un error al procesar tu solicitud financiera.">>

\* handleSubmit after its await
PromptForm_resolved(r) ==
  /\ activePanel = "PromptForm"
  /\ r \in InFlight("news-nlp")
  /\ \E response \in {Empty, Answer("response", r)} :
        promptForm' = [promptForm EXCEPT !.response = response, !.isLoading = FALSE]
  /\ inflight' = inflight \ {r}
  /\ abandoned' = abandoned \ {r.id}
  /\ UNCHANGED <<PromptForm_others, nextId, alertMsg>>

\* handleSubmit after its await, the request rejected with error: the catch
\* block shows one fixed text whatever the error
PromptForm_rejected(r, error) ==
  /\ activePanel = "PromptForm"
  /\ r \in InFlight("news-nlp")
  /\ promptForm' = [promptForm EXCEPT !.response = PromptForm_error, !.isLoading = FALSE]
  /\ inflight' = inflight \ {r}
  /\ abandoned' = abandoned \ {r.id}
  /\ UNCHANGED <<PromptForm_others, nextId, alertMsg>>

PromptForm_settle(r) ==
  \/ PromptForm_resolved(r)
  \/ \E error \in AxiosErrors : PromptForm_rejected(r, error)

\* clear button (type="button", never disabled)
PromptForm_handleClear ==
  /\ activePanel = "PromptForm"
  /\ promptForm' = [promptForm EXCEPT !.prompt = Empty, !.coinName = Empty,
                                      !.response = Empty]
  /\ abandoned' = abandoned \cup {r.id : r \in inflight}
  /\ UNCHANGED <<PromptForm_others, inflight, nextId, alertMsg>>

\* "Limpiar" under the result: onClick={() => setResponse('')}
PromptForm_limpiar ==
  /\ activePanel = "PromptForm"
  /\ Truthy(promptForm.response)
  /\ promptForm' = [promptForm EXCEPT !.response = Empty]
  /\ abandoned' = abandoned \cup {r.id : r \in inflight}
  /\ UNCHANGED <<PromptForm_others, inflight, nextId, alertMsg>>

PromptFormNext ==
  \/ \E v \in PromptValues : PromptForm_setPrompt(v)
  \/ \E l \in Languages : PromptForm_setLanguage(l)
  \/ \E c \in CoinNames : PromptForm_setCoinName(c)
  \/ PromptForm_handleSubmit
  \/ \E r \in inflight : PromptForm_settle(r)
  \/ PromptForm_handleClear
  \/ PromptForm_limpiar

(***************************************************************************)
(* KnowledgeQA                                                             *)
(***************************************************************************)
KnowledgeQA_others == <<textGenerator, imageGenerator, promptForm, responseComparison,
                        articleSearch, activePanel>>

KnowledgeQA_setQuestion(v) ==
  /\ activePanel = "KnowledgeQA"
  /\ v # knowledgeQA.question
  /\ knowledgeQA' = [knowledgeQA EXCEPT !.question = v]
  /\ UNCHANGED <<KnowledgeQA_others, inflight, nextId, abandoned, alertMsg>>

\* submit button: disabled={!question.trim() || isLoading}
KnowledgeQA_disabled == ~Truthy(Trim(knowledgeQA.question)) \/ knowledgeQA.isLoading

\* a handleSubmit that leaves the previous answer and its documents in place
KnowledgeQA_handleSubmit_keepsResult ==
  /\ activePanel = "KnowledgeQA"
  /\ ~KnowledgeQA_disabled
  /\ IF ~Truthy(Trim(knowledgeQA.question))
     THEN /\ alertMsg' = <<"Por favor introduce una pregunta">>
          /\ UNCHANGED <<knowledgeQA, inflight, nextId>>
     ELSE /\ CanIssue
          /\ knowledgeQA' = [knowledgeQA EXCEPT !.isLoading = TRUE]
          /\ inflight' = inflight \cup
                {Request("rag-generate", "/rag/generate", knowledgeQA.question, <<>>)}
          /\ nextId' = nextId + 1
          /\ UNCHANGED alertMsg
  /\ UNCHANGED <<KnowledgeQA_others, abandoned>>

\* form onSubmit: handleSubmit up to its await
KnowledgeQA_handleSubmit ==
  /\ activePanel = "KnowledgeQA"
  /\ ~KnowledgeQA_disabled
  /\ IF ~Truthy(Trim(knowledgeQA.question))
     THEN /\ alertMsg' = <<"Por favor introduce una pregunta">>
          /\ UNCHANGED <<knowledgeQA, inflight, nextId>>
     ELSE /\ CanIssue
          /\ knowledgeQA' = [knowledgeQA EXCEPT !.isLoading = TRUE,
                                                !.response = Empty,
                                                !.sourceDocuments = <<>>,
                                                !.documentsUsed = 0]
          /\ inflight' = inflight \cup
                {Request("rag-generate", "/rag/generate", knowledgeQA.question, <<>>)}
          /\ nextId' = nextId + 1
          /\ UNCHANGED alertMsg
  /\ UNCHANGED <<KnowledgeQA_others, abandoned>>

ErrorServidor(detail) ==
  <<"Error del servidor: ">> \o OrElse(detail, <<"Error del servidor">>)
ErrorConexion(url) ==
  <<"Error de conexion: No se pudo conectar al servidor RAG en ", url,
    "Esta ejecutandose el backend en puerto 8000?">>
ErrorInesperado(message) == <<"Error inesperado: ">> \o message

\* handleSubmit after its await: the response or the catch block
KnowledgeQA_resolved(r) ==
  /\ activePanel = "KnowledgeQA"
  /\ r \in InFlight("rag-generate")
  /\ \E response \in {Empty, Answer("response", r)},
        source_documents \in {<<>>, Answer("doc", r)},
        documents_retrieved \in {0, 2} :
          knowledgeQA' = [knowledgeQA EXCEPT
             !.response = OrElse(response, <<"No se recibio respuesta del servidor">>),
             !.sourceDocuments = source_documents,
             !.documentsUsed = documents_retrieved,
             !.connectionStatus = "connected",
             !.isLoading = FALSE]
  /\ inflight' = inflight \ {r}
  /\ abandoned' = abandoned \ {r.id}
  /\ UNCHANGED <<KnowledgeQA_others, nextId, alertMsg>>

\* the text the catch block shows for error, the request having gone to url
KnowledgeQA_errorText(error, url) ==
  IF error.kind = "response" THEN ErrorServidor(error.detail)
  ELSE IF error.kind = "request" THEN ErrorConexion(url)
  ELSE ErrorInesperado(error.message)

\* a handleSubmit whose setIsLoading(false) is the last line of the try block
KnowledgeQA_rejected_staysLoading(r, error) ==
  /\ activePanel = "KnowledgeQA"
  /\ r \in InFlight("rag-generate")
  /\ knowledgeQA' = [knowledgeQA EXCEPT
        !.connectionStatus = "error", !.response = KnowledgeQA_errorText(error, r.url),
        !.sourceDocuments = <<>>, !.documentsUsed = 0]
  /\ inflight' = inflight \ {r}
  /\ abandoned' = abandoned \ {r.id}
  /\ UNCHANGED <<KnowledgeQA_others, nextId, alertMsg>>

\* handleSubmit after its await, the request rejected with error: the catch block
KnowledgeQA_rejected(r, error) ==
  /\ activePanel = "KnowledgeQA"
  /\ r \in InFlight("rag-generate")
  /\ knowledgeQA' = [knowledgeQA EXCEPT
        !.connectionStatus = "error", !.response = KnowledgeQA_errorText(error, r.url),
        !.sourceDocuments = <<>>, !.documentsUsed = 0, !.isLoading = FALSE]
  /\ inflight' = inflight \ {r}
  /\ abandoned' = abandoned \ {r.id}
  /\ UNCHANGED <<KnowledgeQA_others, nextId, alertMsg>>

KnowledgeQA_settle(r) ==
  \/ KnowledgeQA_resolved(r)
  \/ \E error \in AxiosErrors : KnowledgeQA_rejected(r, error)

\* clear button (type="button", never disabled)
KnowledgeQA_handleClearAll ==
  /\ activePanel = "KnowledgeQA"
  /\ knowledgeQA' = [knowledgeQA EXCEPT !.question = Empty, !.response = Empty,
                                        !.sourceDocuments = <<>>, !.documentsUsed = 0,
                                        !.connectionStatus = "unknown"]
  /\ abandoned' = abandoned \cup {r.id : r \in inflight}
  /\ UNCHANGED <<KnowledgeQA_others, inflight, nextId, alertMsg>>

KnowledgeQANext ==
  \/ \E v \in PromptValues : KnowledgeQA_setQuestion(v)
  \/ KnowledgeQA_handleSubmit
  \/ \E r \in inflight : KnowledgeQA_settle(r)
  \/ KnowledgeQA_handleClearAll

(***************************************************************************)
(* ResponseComparison                                                      *)
(***************************************************************************)
ResponseComparison_others == <<textGenerator, imageGenerator, promptForm, knowledgeQA,
                               articleSearch, activePanel>>

ResponseComparison_setQuestion(v) ==
  /\ activePanel = "ResponseComparison"
  /\ v # responseComparison.question
  /\ responseComparison' = [responseComparison EXCEPT !.question = v]
  /\ UNCHANGED <<ResponseComparison_others, inflight, nextId, abandoned, alertMsg>>

\* the compare button as it would be without the isLoading test
ResponseComparison_disabled_noBusy ==
  ~Truthy(Trim(responseComparison.question))

\* compare button: disabled={!question.trim() || isLoading}
ResponseComparison_disabled ==
  ~Truthy(Trim(responseComparison.question)) \/ responseComparison.isLoading

\* click on "Comparar respuestas": handleCompare up to its await
ResponseComparison_handleCompare ==
  /\ activePanel = "ResponseComparison"
  /\ ~ResponseComparison_disabled
  /\ IF ~Truthy(Trim(responseComparison.question))
     THEN /\ alertMsg' = <<"Por favor introduce una pregunta">>
          /\ UNCHANGED <<responseComparison, inflight, nextId>>
     ELSE /\ CanIssue
          /\ responseComparison' = [responseComparison EXCEPT
                !.isLoading = TRUE, !.ragResponse = Empty, !.simpleResponse = Empty,
                !.ragDocuments = <<>>, !.documentsUsed = 0, !.comparisonMetrics = "null"]
          /\ inflight' = inflight \cup
                {Request("rag-compare", "/rag/compare", responseComparison.question, <<>>)}
          /\ nextId' = nextId + 1
          /\ UNCHANGED alertMsg
  /\ UNCHANGED <<ResponseComparison_others, abandoned>>

\* handleCompare after its await: the response or the catch block
ResponseComparison_resolved(r) ==
  /\ activePanel = "ResponseComparison"
  /\ r \in InFlight("rag-compare")
  /\ \E rag \in {Empty, Answer("rag", r)}, simple \in {Empty, Answer("simple", r)},
        documents_used \in {0, 2}, comparison \in {"null", "metrics"} :
          responseComparison' = [responseComparison EXCEPT
             !.ragResponse = OrElse(rag, <<"No se recibio respuesta RAG">>),
             !.simpleResponse = OrElse(simple, <<"No se recibio respuesta simple">>),
             !.documentsUsed = documents_used,
             !.comparisonMetrics = IF comparison = "null" THEN "{}" ELSE comparison,
             !.connectionStatus = "connected",
             !.isLoading = FALSE]
  /\ inflight' = inflight \ {r}
  /\ abandoned' = abandoned \ {r.id}
  /\ UNCHANGED <<ResponseComparison_others, nextId, alertMsg>>

ErrorConexionSimple == <<"Error de conexion: Verificar que el backend este ejecutandose">>

\* a catch block that reports the error on the RAG side only; the simple side
\* keeps the '' handleCompare gave it before the call
ResponseComparison_errorTexts_ragOnly(error, url) ==
  [rag |-> KnowledgeQA_errorText(error, url), simple |-> Empty]

\* the texts the catch block sets on the two sides
ResponseComparison_errorTexts(error, url) ==
  [rag |-> KnowledgeQA_errorText(error, url),
   simple |-> IF error.kind = "response" THEN ErrorServidor(error.detail)
              ELSE IF error.kind = "request" THEN ErrorConexionSimple
              ELSE ErrorInesperado(error.message)]

\* handleCompare after its await, the request rejected with error: the catch block
ResponseComparison_rejected(r, error) ==
  /\ activePanel = "ResponseComparison"
  /\ r \in InFlight("rag-compare")
  /\ LET texts == ResponseComparison_errorTexts(error, r.url)
     IN responseComparison' = [responseComparison EXCEPT
             !.connectionStatus = "error",
             !.ragResponse = texts.rag, !.simpleResponse = texts.simple,
             !.documentsUsed = 0, !.comparisonMetrics = "null", !.isLoading = FALSE]
  /\ inflight' = inflight \ {r}
  /\ abandoned' = abandoned \ {r.id}
  /\ UNCHANGED <<ResponseComparison_others, nextId, alertMsg>>

ResponseComparison_settle(r) ==
  \/ ResponseComparison_resolved(r)
  \/ \E error \in AxiosErrors : ResponseComparison_rejected(r, error)

\* clear button (never disabled)
ResponseComparison_handleClearAll ==
  /\ activePanel = "ResponseComparison"
  /\ responseComparison' = [responseComparison EXCEPT
        !.question = Empty, !.ragResponse = Empty, !.simpleResponse = Empty,
        !.ragDocuments = <<>>, !.documentsUsed = 0, !.connectionStatus = "unknown",
        !.comparisonMetrics = "null"]
  /\ abandoned' = abandoned \cup {r.id : r \in inflight}
  /\ UNCHANGED <<ResponseComparison_others, inflight, nextId, alertMsg>>

ResponseComparisonNext ==
  \/ \E v \in PromptValues : ResponseComparison_setQuestion(v)
  \/ ResponseComparison_handleCompare
  \/ \E r \in inflight : ResponseComparison_settle(r)
  \/ ResponseComparison_handleClearAll

(***************************************************************************)
(* ArticleSearch                                                           *)
(***************************************************************************)
ArticleSearch_others == <<textGenerator, imageGenerator, promptForm, knowledgeQA,
                          responseComparison, activePanel>>

\* the list the backend returns for search r: n articles of that search
FoundArticles(r, n) == [i \in 1..n |-> "art-" \o ToString(r.id) \o "-" \o ToString(i)]
\* the hard-coded development data of the catch block (by arXiv id)
mockArticles == <<"2407.14771", "2501.04661", "2501.04123">>
\* articles[index] of a JavaScript array, index counted from 0
ArrayAt(arr, index) == IF index + 1 \in DOMAIN arr THEN arr[index + 1] ELSE "undefined"
Includes(arr, x) == \E i \in DOMAIN arr : arr[i] = x
Filter(arr, x) == SelectSeq(arr, LAMBDA y : y # x)

\* the checkboxes the user toggles: the first of a list and the last of the
\* longest list
ToggledIndexes == {0, MaxArticles - 1}

ArticleSearch_setSearchTerm(v) ==
  /\ activePanel = "ArticleSearch"
  /\ v # articleSearch.searchTerm
  /\ articleSearch' = [articleSearch EXCEPT !.searchTerm = v]
  /\ UNCHANGED <<ArticleSearch_others, inflight, nextId, abandoned, alertMsg>>

\* a handleSearch without the check of searchTerm.trim()
ArticleSearch_handleSearch_withoutValidation ==
  /\ activePanel = "ArticleSearch"
  /\ CanIssue
  /\ articleSearch' = [articleSearch EXCEPT !.isSearching = TRUE]
  /\ inflight' = inflight \cup
        {Request("search-articles", "/rag/search-articles",
                 articleSearch.searchTerm, <<>>)}
  /\ nextId' = nextId + 1
  /\ UNCHANGED <<ArticleSearch_others, abandoned, alertMsg>>

\* handleSearch up to its await
ArticleSearch_handleSearch ==
  /\ activePanel = "ArticleSearch"
  /\ IF ~Truthy(Trim(articleSearch.searchTerm))
     THEN /\ alertMsg' = <<"Por favor ingresa un termino de busqueda">>
          /\ UNCHANGED <<articleSearch, inflight, nextId>>
     ELSE /\ CanIssue
          /\ articleSearch' = [articleSearch EXCEPT !.isSearching = TRUE]
          /\ inflight' = inflight \cup
                {Request("search-articles", "/rag/search-articles",
                         articleSearch.searchTerm, <<>>)}
          /\ nextId' = nextId + 1
          /\ UNCHANGED alertMsg
  /\ UNCHANGED <<ArticleSearch_others, abandoned>>

\* search button: disabled={isSearching || !searchTerm.trim()}
ArticleSearch_searchDisabled ==
  articleSearch.isSearching \/ ~Truthy(Trim(articleSearch.searchTerm))

\* click on "Buscar articulos"
ArticleSearch_searchButton ==
  /\ ~ArticleSearch_searchDisabled
  /\ ArticleSearch_handleSearch

\* onKeyPress={(e) => e.key === 'Enter' && handleSearch()} on the topic input
ArticleSearch_searchEnterKey ==
  ArticleSearch_handleSearch

\* handleSearch after its await, the request answered
ArticleSearch_searchResolved(r) ==
  /\ activePanel = "ArticleSearch"
  /\ r \in InFlight("search-articles")
  /\ \E n \in 0..MaxArticles :
        articleSearch' = [articleSearch EXCEPT !.articles = FoundArticles(r, n),
                                               !.selectedArticles = <<>>,
                                               !.isSearching = FALSE]
  /\ inflight' = inflight \ {r}
  /\ abandoned' = abandoned \ {r.id}
  /\ UNCHANGED <<ArticleSearch_others, nextId, alertMsg>>

\* handleSearch after its await, the request rejected with error: the catch
\* block logs the error and lists the development data
ArticleSearch_searchRejected(r, error) ==
  /\ activePanel = "ArticleSearch"
  /\ r \in InFlight("search-articles")
  /\ articleSearch' = [articleSearch EXCEPT !.articles = mockArticles,
                                             !.isSearching = FALSE]
  /\ inflight' = inflight \ {r}
  /\ abandoned' = abandoned \ {r.id}
  /\ UNCHANGED <<ArticleSearch_others, nextId, alertMsg>>

\* handleSearch after its await: the response or the catch block
ArticleSearch_settleSearch(r) ==
  \/ ArticleSearch_searchResolved(r)
  \/ \E error \in AxiosErrors : ArticleSearch_searchRejected(r, error)

\* checkbox of the article rendered at articleIndex
ArticleSearch_handleToggleSelection(articleIndex) ==
  /\ activePanel = "ArticleSearch"
  /\ articleIndex \in 0..(Len(articleSearch.articles) - 1)
  /\ articleSearch' = [articleSearch EXCEPT !.selectedArticles =
        IF Includes(@, articleIndex) THEN Filter(@, articleIndex)
        ELSE Append(@, articleIndex)]
  /\ UNCHANGED <<ArticleSearch_others, inflight, nextId, abandoned, alertMsg>>

\* the add button is rendered while articles and selectedArticles are non-empty
\* and is disabled={isAddingToDb}
ArticleSearch_addDisabled ==
  \/ Len(articleSearch.articles) = 0
  \/ Len(articleSearch.selectedArticles) = 0
  \/ articleSearch.isAddingToDb

\* handleAddSelectedToDatabase up to its await
ArticleSearch_handleAddSelectedToDatabase ==
  /\ activePanel = "ArticleSearch"
  /\ ~ArticleSearch_addDisabled
  /\ IF Len(articleSearch.selectedArticles) = 0
     THEN /\ alertMsg' = <<"Por favor selecciona al menos un articulo">>
          /\ UNCHANGED <<articleSearch, inflight, nextId>>
     ELSE /\ CanIssue
          /\ articleSearch' = [articleSearch EXCEPT !.isAddingToDb = TRUE]
          /\ inflight' = inflight \cup
                {Request("add-articles", "/rag/add-articles-to-vector-db",
                         articleSearch.searchTerm,
                         [k \in DOMAIN articleSearch.selectedArticles |->
                            ArrayAt(articleSearch.articles,
                                    articleSearch.selectedArticles[k])])}
          /\ nextId' = nextId + 1
          /\ UNCHANGED alertMsg
  /\ UNCHANGED <<ArticleSearch_others, abandoned>>

\* HTTP success statuses the backend may answer with
SuccessStatuses == {200, 201}

\* the two notices of handleAddSelectedToDatabase, for n forwarded articles
ArticleSearch_addedNotice(n) ==
  <<ToString(n), " articulos agregados exitosamente a la base de conocimientos">>
ArticleSearch_simulatedNotice(n) ==
  <<ToString(n), " articulos agregados a la base de conocimientos (simulado)">>

\* handleAddSelectedToDatabase after its await, the request answered with status
ArticleSearch_addResolved(r, status) ==
  /\ activePanel = "ArticleSearch"
  /\ r \in InFlight("add-articles")
  /\ IF status = 200
     THEN /\ alertMsg' = ArticleSearch_addedNotice(Len(r.body))
          /\ articleSearch' = [articleSearch EXCEPT !.selectedArticles = <<>>,
                                                    !.isAddingToDb = FALSE]
     ELSE /\ articleSearch' = [articleSearch EXCEPT !.isAddingToDb = FALSE]
          /\ UNCHANGED alertMsg
  /\ inflight' = inflight \ {r}
  /\ abandoned' = abandoned \ {r.id}
  /\ UNCHANGED <<ArticleSearch_others, nextId>>

\* handleAddSelectedToDatabase after its await, the request rejected with
\* error: the catch block
ArticleSearch_addRejected(r, error) ==
  /\ activePanel = "ArticleSearch"
  /\ r \in InFlight("add-articles")
  /\ alertMsg' = ArticleSearch_simulatedNotice(Len(r.body))
  /\ articleSearch' = [articleSearch EXCEPT !.selectedArticles = <<>>,
                                            !.isAddingToDb = FALSE]
  /\ inflight' = inflight \ {r}
  /\ abandoned' = abandoned \ {r.id}
  /\ UNCHANGED <<ArticleSearch_others, nextId>>

\* handleAddSelectedToDatabase after its await
ArticleSearch_settleAdd(r) ==
  \/ \E status \in SuccessStatuses : ArticleSearch_addResolved(r, status)
  \/ \E error \in AxiosErrors : ArticleSearch_addRejected(r, error)

ArticleSearchNext ==
  \/ \E v \in PromptValues : ArticleSearch_setSearchTerm(v)
  \/ ArticleSearch_searchButton
  \/ ArticleSearch_searchEnterKey
  \/ \E r \in inflight : ArticleSearch_settleSearch(r)
  \/ \E i \in ToggledIndexes : ArticleSearch_handleToggleSelection(i)
  \/ ArticleSearch_handleAddSelectedToDatabase
  \/ \E r \in inflight : ArticleSearch_settleAdd(r)

(***************************************************************************)
(* Session, route guard, register, login, profile editor                   *)
(***************************************************************************)
NoUser == "null"
\* the uid the Auth collaborator assigns to the created account
NewUid == "U1"
Uids == {NewUid}
ProfileFields == {"nombre", "apellido", "email", "tipo", "bio"}
\* what the user types or selects, per field name
FieldValues ==
  [nombre |-> {"", "Ana"}, apellido |-> {"", "Ruiz"}, email |-> {"", "a@b.com"},
   password |-> {"", "secret1"}, tipo |-> {"particular", "empresa"}, bio |-> {"", "hi"}]
\* err.message of the collaborators
AuthErrors == {<<"auth/email-already-in-use">>, <<"auth/network-request-failed">>}
StoreErrors == {<<"permission-denied">>}

\* the profile fields the user edits in the Profile editor
EditedFields == {"nombre"}

Paths == {"/", "/dashboard", "/text-generator", "/image-generator", "/profile",
          "/agente", "/ai-services"}

Waiting == [kind |-> "waiting", to |-> "", component |-> ""]
NavigateTo(p) == [kind |-> "redirect", to |-> p, component |-> ""]
Element(c) == [kind |-> "component", to |-> "", component |-> c]

\* an AuthPage without the `if (user) return <Navigate to="/dashboard" />` line
AuthPage_withoutRedirect(u, l) ==
  IF l THEN Waiting ELSE Element("AuthForms")

\* AuthPage: waiting view, redirect of an authenticated user, or the forms
AuthPage(u, l) ==
  IF l THEN Waiting
  ELSE IF u # NoUser THEN NavigateTo("/dashboard")
  ELSE Element("AuthForms")

\* a guard that sends the visitor without a session to the dashboard
Guarded_toDashboard(u, c) == IF u # NoUser THEN Element(c) ELSE NavigateTo("/dashboard")

\* the guard of a protected route: element={user ? <C /> : <Navigate to="/" />}
Guarded(u, c) == IF u # NoUser THEN Element(c) ELSE NavigateTo("/")
\* the route of /agente: element={<PromptForm />}
AgenteRoute(u) == Element("PromptForm")

\* an App without the `if (loading) return ...` line: the route table is
\* consulted while the session is still resolving
App_routesWhileLoading(p, u, l) ==
  CASE p = "/" -> AuthPage(u, l)
    [] p = "/dashboard" -> Guarded(u, "Dashboard")
    [] p = "/text-generator" -> Guarded(u, "TextGenerator")
    [] p = "/image-generator" -> Guarded(u, "ImageGenerator")
    [] p = "/profile" -> Guarded(u, "Profile")
    [] p = "/agente" -> AgenteRoute(u)
    [] OTHER -> NavigateTo("/")

\* App: the route table; a static path outranks the "*" route
App(p, u, l) ==
  IF l THEN Waiting
  ELSE CASE p = "/" -> AuthPage(u, l)
         [] p = "/dashboard" -> Guarded(u, "Dashboard")
         [] p = "/text-generator" -> Guarded(u, "TextGenerator")
         [] p = "/image-generator" -> Guarded(u, "ImageGenerator")
         [] p = "/profile" -> Guarded(u, "Profile")
         [] p = "/agente" -> AgenteRoute(u)
         [] OTHER -> NavigateTo("/")

\* what is on screen now
Screen == App(path, user, loading)
Shows(c) == Screen = Element(c)
\* Dashboard, Profile, TextGenerator, ImageGenerator and PromptForm render <Navbar />
NavbarShown == Screen.kind = "component" /\ Screen.component # "AuthForms"
\* Navbar.navItems
navItems == {"/dashboard", "/text-generator", "/image-generator", "/ai-services", "/profile"}

FormInit == [nombre |-> "", apellido |-> "", email |-> "", password |-> "",
             tipo |-> "particular", bio |-> ""]
LoginInit == [email |-> "", password |-> ""]
userInfoInit == [nombre |-> "", apellido |-> "", email |-> "", tipo |-> "particular",
                 bio |-> ""]
ProfileInit == [userInfo |-> userInfoInit, isEditing |-> FALSE, isSaving |-> FALSE]

\* Firestore updateDoc: the given fields replace those of the document, the
\* other fields of the document stay
updateDoc(document, fields) ==
  [k \in DOMAIN document \cup DOMAIN fields |->
     IF k \in DOMAIN fields THEN fields[k] ELSE document[k]]

CanCall == Cardinality({r \in pending : r.op # "getDoc"}) < MaxPending

\* Profile useEffect: fetchUserData up to its await
getDocCall(u) == [op |-> "getDoc", uid |-> u, read |-> FALSE, snap |-> <<>>, after |-> <<>>]

\* the Firebase calls that outlive a change of screen: every call but the
\* profile fetch completes at the collaborator; the state updates of an
\* unmounted Profile are dropped
AfterUnmount(ops) ==
  {IF r.op = "updateDoc" THEN [r EXCEPT !.live = FALSE] ELSE r :
     r \in {q \in ops : q.op # "getDoc"}}

\* The session or the location changes to (p, u, l): components that leave
\* the screen lose their state, components that enter it start from their
\* useState defaults, and a Profile that mounts runs its effect.
Rerender(p, u, l, ops) ==
  LET old == Screen
      new == App(p, u, l)
      stays(c) == old = Element(c) /\ new = Element(c)
  IN /\ path' = p
     /\ user' = u
     /\ loading' = l
     /\ mode' = IF stays("AuthForms") THEN mode ELSE "login"
     /\ form' = IF stays("AuthForms") THEN form ELSE FormInit
     /\ login' = IF stays("AuthForms") THEN login ELSE LoginInit
     /\ profile' = IF stays("Profile") THEN profile ELSE ProfileInit
     /\ pending' = IF stays("Profile") THEN ops
                   ELSE IF new = Element("Profile")
                        THEN AfterUnmount(ops) \cup {getDocCall(u)}
                        ELSE AfterUnmount(ops)

\* nobody is registered or signed in, the session is still resolving, and the
\* browser opens the application at one of the paths P
AuthInit(P) ==
  /\ path \in P
  /\ authUser = NoUser
  /\ accounts = {}
  /\ users = [u \in Uids |-> <<>>]
  /\ user = NoUser
  /\ loading = TRUE
  /\ mode = "login"
  /\ form = FormInit
  /\ login = LoginInit
  /\ profile = ProfileInit
  /\ pending = {}
  /\ signedUp = <<>>
  /\ lastSave = <<>>

\* useAuthState: the auth listener delivers the current user to the hook
AuthStateChanged ==
  /\ loading \/ user # authUser
  /\ Rerender(path, authUser, FALSE, pending)
  /\ UNCHANGED <<authUser, accounts, users, signedUp, lastSave, alertMsg>>

\* <Navigate to=... /> rendered by App or AuthPage takes effect
FollowRedirect ==
  /\ Screen.kind = "redirect"
  /\ Rerender(Screen.to, user, loading, pending)
  /\ UNCHANGED <<authUser, accounts, users, signedUp, lastSave, alertMsg>>

\* Navbar: onClick={() => navigate(item.path)}
Navbar_navigate(item) ==
  /\ NavbarShown
  /\ item # path
  /\ Rerender(item, user, loading, pending)
  /\ UNCHANGED <<authUser, accounts, users, signedUp, lastSave, alertMsg>>

\* Navbar.handleLogout up to its await
Navbar_handleLogout ==
  /\ NavbarShown
  /\ CanCall
  /\ pending' = pending \cup {[op |-> "signOut"]}
  /\ UNCHANGED <<authUser, accounts, users, user, loading, path, mode, form, login,
                 profile, signedUp, lastSave, alertMsg>>

\* a handleLogout that signs out and stays on the page
Navbar_handleLogout_settle_withoutNavigate(r) ==
  /\ r \in pending /\ r.op = "signOut"
  /\ authUser' = NoUser
  /\ pending' = pending \ {r}
  /\ UNCHANGED <<accounts, users, user, loading, path, mode, form, login, profile,
                 signedUp, lastSave, alertMsg>>

\* signOut resolves; handleLogout continues with navigate('/')
Navbar_handleLogout_settle(r) ==
  /\ r \in pending /\ r.op = "signOut"
  /\ authUser' = NoUser
  /\ Rerender("/", user, loading, pending \ {r})
  /\ UNCHANGED <<accounts, users, signedUp, lastSave, alertMsg>>

\* pages/dashboard.js, "Cerrar sesion": onClick={() => signOut(auth)}, nothing
\* awaits the promise
Dashboard_signOut ==
  /\ Shows("Dashboard")
  /\ CanCall
  /\ pending' = pending \cup {[op |-> "signOutOnly"]}
  /\ UNCHANGED <<authUser, accounts, users, user, loading, path, mode, form, login,
                 profile, signedUp, lastSave, alertMsg>>

\* that signOut resolves: the collaborator drops the session
Dashboard_signOut_settle(r) ==
  /\ r \in pending /\ r.op = "signOutOnly"
  /\ authUser' = NoUser
  /\ pending' = pending \ {r}
  /\ UNCHANGED <<accounts, users, user, loading, path, mode, form, login, profile,
                 signedUp, lastSave, alertMsg>>

\* AuthPage: the two mode buttons; {mode === "login" ? <Login /> : <Register />}
\* mounts the chosen form afresh
AuthPage_setMode(m) ==
  /\ Shows("AuthForms")
  /\ m # mode
  /\ mode' = m
  /\ form' = FormInit
  /\ login' = LoginInit
  /\ UNCHANGED <<authUser, accounts, users, user, loading, path, profile,
                 pending, signedUp, lastSave, alertMsg>>

(***************************************************************************)
(* Register                                                                *)
(***************************************************************************)
Register_handleChange(name, value) ==
  /\ Shows("AuthForms") /\ mode = "register"
  /\ value # form[name]
  /\ form' = [form EXCEPT ![name] = value]
  /\ UNCHANGED <<authUser, accounts, users, user, loading, path, mode, login, profile,
                 pending, signedUp, lastSave, alertMsg>>

\* every input of the form is `required`: the browser submits only a filled form
Register_valid == \A name \in DOMAIN form : form[name] # ""

\* form onSubmit: handleSubmit up to its first await
Register_handleSubmit ==
  /\ Shows("AuthForms") /\ mode = "register"
  /\ CanCall
  /\ Register_valid
  /\ pending' = pending \cup {[op |-> "createUser", form |-> form]}
  /\ UNCHANGED <<authUser, accounts, users, user, loading, path, mode, form, login,
                 profile, signedUp, lastSave, alertMsg>>

\* a profile document that spreads the whole form: {...form, uid}
Register_document_withPassword(f, uid) ==
  [k \in DOMAIN f \cup {"uid"} |-> IF k = "uid" THEN uid ELSE f[k]]

\* the document handleSubmit writes for the created user
Register_document(f, uid) ==
  [nombre |-> f.nombre, apellido |-> f.apellido, email |-> f.email, tipo |-> f.tipo,
   bio |-> f.bio, uid |-> uid]

\* a handleSubmit whose setDoc is outside the try block's success path: the
\* profile write is issued whether or not the credential was created
Register_createUser_settle_alwaysWrites(r) ==
  /\ r \in pending /\ r.op = "createUser"
  /\ \/ /\ \A a \in accounts : a.email # r.form.email
        /\ accounts' = accounts \cup
              {[email |-> r.form.email, password |-> r.form.password, uid |-> NewUid]}
        /\ authUser' = NewUid
        /\ signedUp' = <<[k \in ProfileFields |-> r.form[k]]>>
        /\ UNCHANGED alertMsg
     \/ \E err \in AuthErrors :
        /\ (err = <<"auth/email-already-in-use">>) =
              (\E a \in accounts : a.email = r.form.email)
        /\ alertMsg' = <<"Error al registrar usuario: ">> \o err
        /\ UNCHANGED <<accounts, authUser, signedUp>>
  /\ pending' = (pending \ {r}) \cup
        {[op |-> "setDoc", uid |-> NewUid, data |-> Register_document(r.form, NewUid)]}
  /\ UNCHANGED <<users, user, loading, path, mode, form, login, profile, lastSave>>

\* createUserWithEmailAndPassword settles: on success the account exists, the
\* collaborator signs the user in and handleSubmit calls setDoc; on failure
\* the catch block alerts
Register_createUser_settle(r) ==
  /\ r \in pending /\ r.op = "createUser"
  /\ \/ /\ \A a \in accounts : a.email # r.form.email
        /\ accounts' = accounts \cup
              {[email |-> r.form.email, password |-> r.form.password, uid |-> NewUid]}
        /\ authUser' = NewUid
        /\ pending' = (pending \ {r}) \cup
              {[op |-> "setDoc", uid |-> NewUid, data |-> Register_document(r.form, NewUid)]}
        /\ signedUp' = <<[k \in ProfileFields |-> r.form[k]]>>
        /\ UNCHANGED alertMsg
     \/ \E err \in AuthErrors :
        /\ (err = <<"auth/email-already-in-use">>) =
              (\E a \in accounts : a.email = r.form.email)
        /\ alertMsg' = <<"Error al registrar usuario: ">> \o err
        /\ pending' = pending \ {r}
        /\ UNCHANGED <<accounts, authUser, signedUp>>
  /\ UNCHANGED <<users, user, loading, path, mode, form, login, profile, lastSave>>

\* setDoc settles: the document is stored, or the catch block alerts
Register_setDoc_settle(r) ==
  /\ r \in pending /\ r.op = "setDoc"
  /\ \/ /\ users' = [users EXCEPT ![r.uid] = <<r.data>>]
        /\ lastSave' = <<>>
        /\ UNCHANGED alertMsg
     \/ \E err \in StoreErrors :
        /\ alertMsg' = <<"Error al registrar usuario: ">> \o err
        /\ UNCHANGED <<users, lastSave>>
  /\ pending' = pending \ {r}
  /\ UNCHANGED <<authUser, accounts, user, loading, path, mode, form, login, profile,
                 signedUp>>

(***************************************************************************)
(* Login                                                                   *)
(***************************************************************************)
Login_setField(name, value) ==
  /\ Shows("AuthForms") /\ mode = "login"
  /\ value # login[name]
  /\ login' = [login EXCEPT ![name] = value]
  /\ UNCHANGED <<authUser, accounts, users, user, loading, path, mode, form, profile,
                 pending, signedUp, lastSave, alertMsg>>

\* form onSubmit (both inputs are `required`): handleLogin up to its await
Login_handleLogin ==
  /\ Shows("AuthForms") /\ mode = "login"
  /\ CanCall
  /\ login.email # "" /\ login.password # ""
  /\ pending' = pending \cup
        {[op |-> "signIn", email |-> login.email, password |-> login.password]}
  /\ UNCHANGED <<authUser, accounts, users, user, loading, path, mode, form, login,
                 profile, signedUp, lastSave, alertMsg>>

\* signInWithEmailAndPassword resolves: the collaborator holds the session and
\* handleLogin continues with navigate("/dashboard")
Login_handleLogin_resolved(r) ==
  /\ r \in pending /\ r.op = "signIn"
  /\ \E a \in accounts :
        /\ a.email = r.email /\ a.password = r.password
        /\ authUser' = a.uid
  /\ Rerender("/dashboard", user, loading, pending \ {r})
  /\ UNCHANGED <<accounts, users, signedUp, lastSave, alertMsg>>

\* err.message of a rejected signInWithEmailAndPassword
SignInErrors == {<<"auth/invalid-credential">>, <<"auth/network-request-failed">>}

\* a handleLogin whose navigate("/dashboard") follows the try/catch
Login_handleLogin_rejected_navigates(r, err) ==
  /\ r \in pending /\ r.op = "signIn"
  /\ err \in SignInErrors
  /\ (err = <<"auth/invalid-credential">>) =
        (~\E a \in accounts : a.email = r.email /\ a.password = r.password)
  /\ alertMsg' = <<"Error al iniciar sesion: ">> \o err
  /\ Rerender("/dashboard", user, loading, pending \ {r})
  /\ UNCHANGED <<authUser, accounts, users, signedUp, lastSave>>

\* signInWithEmailAndPassword rejects: the catch block alerts err.message
Login_handleLogin_rejected(r, err) ==
  /\ r \in pending /\ r.op = "signIn"
  /\ err \in SignInErrors
  /\ (err = <<"auth/invalid-credential">>) =
        (~\E a \in accounts : a.email = r.email /\ a.password = r.password)
  /\ alertMsg' = <<"Error al iniciar sesion: ">> \o err
  /\ pending' = pending \ {r}
  /\ UNCHANGED <<authUser, accounts, users, user, loading, path, mode, form, login,
                 profile, signedUp, lastSave>>

Login_handleLogin_settle(r) ==
  \/ Login_handleLogin_resolved(r)
  \/ \E err \in SignInErrors : Login_handleLogin_rejected(r, err)

(***************************************************************************)
(* Profile                                                                 *)
(***************************************************************************)
Profile_others == <<authUser, accounts, user, loading, path, mode, form, login, signedUp>>

\* "Editar"
Profile_edit ==
  /\ Shows("Profile")
  /\ ~profile.isEditing
  /\ profile' = [profile EXCEPT !.isEditing = TRUE]
  /\ UNCHANGED <<Profile_others, users, pending, lastSave, alertMsg>>

\* "Cancelar"
Profile_cancel ==
  /\ Shows("Profile")
  /\ profile.isEditing
  /\ profile' = [profile EXCEPT !.isEditing = FALSE]
  /\ UNCHANGED <<Profile_others, users, pending, lastSave, alertMsg>>

\* the inputs with onChange={handleChange}; they are disabled={!isEditing} and
\* the email input has no onChange and is disabled={true}
Profile_editable == {"nombre", "apellido", "tipo", "bio"}

Profile_handleChange(name, value) ==
  /\ Shows("Profile")
  /\ profile.isEditing
  /\ name \in Profile_editable
  /\ value # profile.userInfo[name]
  /\ profile' = [profile EXCEPT !.userInfo = [@ EXCEPT ![name] = value]]
  /\ UNCHANGED <<Profile_others, users, pending, lastSave, alertMsg>>

\* a handleSave that leaves nombre out of the fields it passes to updateDoc
Profile_saveFields_withoutNombre(userInfo) ==
  [k \in DOMAIN userInfo \ {"nombre"} |-> userInfo[k]]

\* the fields handleSave passes to updateDoc: the whole userInfo
Profile_saveFields(userInfo) == userInfo

\* "Guardar" (rendered while editing, disabled={isSaving}): handleSave up to its await
Profile_handleSave ==
  /\ Shows("Profile")
  /\ CanCall
  /\ profile.isEditing /\ ~profile.isSaving
  /\ profile' = [profile EXCEPT !.isSaving = TRUE]
  /\ pending' = pending \cup
        {[op |-> "updateDoc", uid |-> user, userInfo |-> profile.userInfo,
          data |-> Profile_saveFields(profile.userInfo), live |-> TRUE]}
  /\ UNCHANGED <<Profile_others, users, lastSave, alertMsg>>

\* updateDoc resolves (the document exists and is written); handleSave
\* continues in the Profile instance that called it, if that is still mounted
Profile_handleSave_resolved(r) ==
  /\ r \in pending /\ r.op = "updateDoc"
  /\ users[r.uid] # <<>>
  /\ users' = [users EXCEPT ![r.uid] = <<updateDoc(users[r.uid][1], r.data)>>]
  /\ lastSave' = <<r.userInfo>>
  /\ alertMsg' = <<"Perfil actualizado correctamente">>
  /\ profile' = IF r.live THEN [profile EXCEPT !.isEditing = FALSE, !.isSaving = FALSE]
                ELSE profile
  /\ pending' = pending \ {r}
  /\ UNCHANGED Profile_others

\* a handleSave whose setIsEditing(false) stands after the try/catch
Profile_handleSave_rejected_leavesEditing(r) ==
  /\ r \in pending /\ r.op = "updateDoc"
  /\ alertMsg' = <<"Error al actualizar el perfil">>
  /\ profile' = IF r.live THEN [profile EXCEPT !.isEditing = FALSE, !.isSaving = FALSE]
                ELSE profile
  /\ pending' = pending \ {r}
  /\ UNCHANGED <<Profile_others, users, lastSave>>

\* updateDoc rejects (a store error, or the document does not exist): the
\* catch block of handleSave
Profile_handleSave_rejected(r) ==
  /\ r \in pending /\ r.op = "updateDoc"
  /\ alertMsg' = <<"Error al actualizar el perfil">>
  /\ profile' = IF r.live THEN [profile EXCEPT !.isSaving = FALSE] ELSE profile
  /\ pending' = pending \ {r}
  /\ UNCHANGED <<Profile_others, users, lastSave>>

\* handleSave after its await
Profile_handleSave_settle(r) ==
  \/ Profile_handleSave_resolved(r)
  \/ Profile_handleSave_rejected(r)

\* the store serves the getDoc of fetchUserData
Profile_getDoc_read(r) ==
  /\ r \in pending /\ r.op = "getDoc" /\ ~r.read
  /\ pending' = (pending \ {r}) \cup
        {[r EXCEPT !.read = TRUE, !.snap = users[r.uid], !.after = lastSave]}
  /\ UNCHANGED <<Profile_others, users, profile, lastSave, alertMsg>>

\* fetchUserData after its await: if (userDoc.exists()) setUserInfo(userDoc.data())
Profile_fetchUserData_settle(r) ==
  /\ r \in pending /\ r.op = "getDoc" /\ r.read
  /\ profile' = IF r.snap # <<>> THEN [profile EXCEPT !.userInfo = r.snap[1]] ELSE profile
  /\ pending' = pending \ {r}
  /\ UNCHANGED <<Profile_others, users, lastSave, alertMsg>>

\* getDoc rejects: fetchUserData has no catch, nothing is updated
Profile_fetchUserData_reject(r) ==
  /\ r \in pending /\ r.op = "getDoc" /\ ~r.read
  /\ pending' = pending \ {r}
  /\ UNCHANGED <<Profile_others, users, profile, lastSave, alertMsg>>

\* session and routing
SessionNext ==
  \/ AuthStateChanged
  \/ FollowRedirect
  \/ \E item \in navItems : Navbar_navigate(item)
  \/ \E m \in {"login", "register"} : AuthPage_setMode(m)

RegisterNext ==
  \/ \E name \in DOMAIN FormInit : \E value \in FieldValues[name] :
        Register_handleChange(name, value)
  \/ Register_handleSubmit
  \/ \E r \in pending : Register_createUser_settle(r)
  \/ \E r \in pending : Register_setDoc_settle(r)

LoginNext ==
  \/ \E name \in DOMAIN LoginInit : \E value \in FieldValues[name] :
        Login_setField(name, value)
  \/ Login_handleLogin
  \/ \E r \in pending : Login_handleLogin_settle(r)
  \/ Navbar_handleLogout
  \/ \E r \in pending : Navbar_handleLogout_settle(r)
  \/ Dashboard_signOut
  \/ \E r \in pending : Dashboard_signOut_settle(r)

ProfileNext ==
  \/ Profile_edit
  \/ Profile_cancel
  \/ \E name \in EditedFields : \E value \in FieldValues[name] :
        Profile_handleChange(name, value)
  \/ Profile_handleSave
  \/ \E r \in pending : Profile_handleSave_settle(r)
  \/ \E r \in pending : Profile_getDoc_read(r)
  \/ \E r \in pending : Profile_fetchUserData_settle(r)
  \/ \E r \in pending : Profile_fetchUserData_reject(r)

(***************************************************************************)
(* Specifications                                                          *)
(***************************************************************************)
\* The five generation panels: the user opens any of them first and moves
\* between them.  The session plays no part and stays as it is.
Init ==
  /\ activePanel \in GenerationPanels
  /\ PanelsInit
  /\ AuthInit({"/"})

PanelsNext ==
  \/ \E p \in GenerationPanels : SwitchPanel(p)
  \/ TextGeneratorNext
  \/ ImageGeneratorNext
  \/ PromptFormNext
  \/ KnowledgeQANext
  \/ ResponseComparisonNext

\* window.alert is modal and blocks the event loop: nothing else happens
\* until the user dismisses it
DismissAlert ==
  /\ alertMsg # Empty
  /\ alertMsg' = Empty
  /\ UNCHANGED <<panelState, authState>>

Next ==
  \/ DismissAlert
  \/ alertMsg = Empty /\ PanelsNext /\ UNCHANGED authState

Spec == Init /\ [][Next]_vars

\* One mounted ArticleSearch instance (the "search" tab of ScientificRAG).
SearchInit ==
  /\ activePanel = "ArticleSearch"
  /\ PanelsInit
  /\ AuthInit({"/"})

SearchNext ==
  \/ DismissAlert
  \/ alertMsg = Empty /\ ArticleSearchNext /\ UNCHANGED authState

SpecSearch == SearchInit /\ [][SearchNext]_vars

\* All six panels: the user opens any of them first and moves between them.
AllPanelsInit ==
  /\ activePanel \in Panels
  /\ PanelsInit
  /\ AuthInit({"/"})

AllPanelsNext ==
  \/ DismissAlert
  \/ alertMsg = Empty /\ (\E p \in Panels : SwitchPanel(p)) /\ UNCHANGED authState
  \/ alertMsg = Empty /\ PanelsNext /\ UNCHANGED authState
  \/ alertMsg = Empty /\ ArticleSearchNext /\ UNCHANGED authState

SpecPanels == AllPanelsInit /\ [][AllPanelsNext]_vars

\* Session, routing, register and profile: a visitor signs up and uses the
\* profile editor.  The panels a route renders are opaque here: their state
\* stays at the defaults.
AuthSpecInit ==
  /\ activePanel = "TextGenerator"
  /\ PanelsInit
  /\ AuthInit(Paths)

AuthSpecNext ==
  \/ DismissAlert
  \/ alertMsg = Empty /\ SessionNext /\ UNCHANGED panelState
  \/ alertMsg = Empty /\ RegisterNext /\ UNCHANGED panelState
  \/ alertMsg = Empty /\ ProfileNext /\ UNCHANGED panelState

SpecAuth == AuthSpecInit /\ [][AuthSpecNext]_vars

\* The same with sign-out and sign-in.
SessionSpecNext ==
  \/ AuthSpecNext
  \/ alertMsg = Empty /\ LoginNext /\ UNCHANGED panelState

SpecSession == AuthSpecInit /\ [][SessionSpecNext]_vars

\* A returning visitor: the account and its profile document exist, nobody is
\* signed in.  The auth listener and a rendered <Navigate /> run without the
\* user; nothing else is assumed to happen.
ReturningInit ==
  /\ activePanel = "TextGenerator"
  /\ PanelsInit
  /\ path \in Paths
  /\ authUser = NoUser
  /\ accounts = {[email |-> "a@b.com", password |-> "secret1", uid |-> NewUid]}
  /\ users = [u \in Uids |->
                <<Register_document([nombre |-> "Ana", apellido |-> "Ruiz",
                                     email |-> "a@b.com", tipo |-> "particular",
                                     bio |-> ""], u)>>]
  /\ user = NoUser
  /\ loading = TRUE
  /\ mode = "login"
  /\ form = FormInit
  /\ login = LoginInit
  /\ profile = ProfileInit
  /\ pending = {}
  /\ signedUp = <<>>
  /\ lastSave = <<>>

ReturningNext ==
  \/ DismissAlert
  \/ alertMsg = Empty /\ SessionNext /\ UNCHANGED panelState
  \/ alertMsg = Empty /\ LoginNext /\ UNCHANGED panelState
  \/ alertMsg = Empty /\ ProfileNext /\ UNCHANGED panelState

ReturningFairness ==
  /\ WF_vars(alertMsg = Empty /\ AuthStateChanged /\ UNCHANGED panelState)
  /\ WF_vars(alertMsg = Empty /\ FollowRedirect /\ UNCHANGED panelState)

SpecReturning == ReturningInit /\ [][ReturningNext]_vars /\ ReturningFairness

(***************************************************************************)
(* Properties of the panels                                                *)
(***************************************************************************)
\* the request each panel's submit operation issues
SubmitOps == {"generate", "generate-image", "news-nlp", "rag-generate", "rag-compare"}
SubmitInFlight == {r \in inflight : r.op \in SubmitOps}
\* the busy flag (isGenerating / isLoading) of the mounted panel
Busy ==
  CASE activePanel = "TextGenerator" -> textGenerator.isGenerating
    [] activePanel = "ImageGenerator" -> imageGenerator.isGenerating
    [] activePanel = "PromptForm" -> promptForm.isLoading
    [] activePanel = "KnowledgeQA" -> knowledgeQA.isLoading
    [] activePanel = "ResponseComparison" -> responseComparison.isLoading
    [] OTHER -> articleSearch.isSearching
\* the result fields the panels render
ResultFields ==
  <<textGenerator.generatedText,
    imageGenerator.generatedImage, imageGenerator.imageUrl,
    promptForm.response,
    knowledgeQA.response, knowledgeQA.sourceDocuments, knowledgeQA.documentsUsed,
    knowledgeQA.connectionStatus,
    responseComparison.ragResponse, responseComparison.simpleResponse,
    responseComparison.ragDocuments, responseComparison.documentsUsed,
    responseComparison.connectionStatus, responseComparison.comparisonMetrics>>
\* request r of the mounted instance settles in this step
Settles(r) == r \in inflight /\ r \notin inflight' /\ activePanel' = activePanel

\* C1: single flight per generation panel.  In every reachable state at most
\* one request started by the mounted panel's submit operation is in flight,
\* and no step taken while the panel's busy flag is true adds a submit request.
C1_SingleFlight ==
  /\ [](Cardinality(SubmitInFlight) <= 1)
  /\ [][Busy => SubmitInFlight' \subseteq SubmitInFlight]_vars
\* the comparison panel is busy with its one request, the question is
\* non-blank, and the model could still issue another request
C1_Witness ==
  /\ activePanel = "ResponseComparison"
  /\ responseComparison.isLoading
  /\ Truthy(Trim(responseComparison.question))
  /\ Cardinality(SubmitInFlight) = 1
  /\ CanIssue

\* C2 (as claimed): at most one /rag/search-articles request is in flight,
\* however the search was started (button or Enter key).
C2_OneSearchInFlight == Cardinality(InFlight("search-articles")) <= 1

\* C3 (as claimed): whenever a search request settles, by success or by
\* failure, selectedArticles is empty afterwards.
C3_SelectionEmptyAfterSearch ==
  [][(\E r \in InFlight("search-articles") : Settles(r))
       => articleSearch'.selectedArticles = <<>>]_vars

\* C7 (as claimed): a request that was in flight when the panel was cleared
\* leaves the result fields as they are when it later resolves or rejects.
C7_ResponseAfterClearDiscarded ==
  [][(\E r \in inflight : r.id \in abandoned /\ Settles(r))
       => ResultFields' = ResultFields]_vars

\* C8 (as claimed): clear, from any state, leaves the panel idle with every
\* form and result field at its initial default.
C8_ClearRestoresDefaults ==
  [][/\ KnowledgeQA_handleClearAll => knowledgeQA' = KnowledgeQAInit
     /\ ResponseComparison_handleClearAll => responseComparison' = ResponseComparisonInit
     /\ PromptForm_handleClear => promptForm' = PromptFormInit]_vars

\* C9 (as claimed): a response is applied to the view state only if it belongs
\* to the most recently issued request of the panel instance.
C9_OnlyLatestApplied ==
  [][(\E r \in inflight : Settles(r) /\ r.id # nextId - 1)
       => ResultFields' = ResultFields]_vars

(***************************************************************************)
(* Properties of the session, the route guard and the profile              *)
(***************************************************************************)
\* C4 (as claimed): with the session settled and nobody signed in, every path
\* other than "/" yields a redirect to "/", never a panel.
C4_RouteGuard ==
  (~loading /\ user = NoUser /\ path # "/") => Screen = NavigateTo("/")

\* C5 (as claimed): a profile fetch after an accepted sign-up (and before any
\* profile save) delivers exactly the submitted nombre, apellido, email, tipo
\* and bio, whatever the order of the sign-up's steps and the fetch.
C5_FetchAfterSignUp ==
  [][\A r \in pending :
       (Profile_fetchUserData_settle(r) /\ signedUp # <<>> /\ r.after = <<>>)
         => \A k \in ProfileFields : profile'.userInfo[k] = signedUp[1][k]]_vars

\* C6 (as claimed): no step changes the email field of a stored profile
\* document.
C6_EmailImmutable ==
  [][\A u \in Uids :
       (users[u] # <<>> /\ users'[u] # <<>>)
         => users'[u][1].email = users[u][1].email]_vars

\* C10: profile round trip.  When a fetch delivers a snapshot that the store
\* served while the last write to the document was a successful handleSave,
\* the userInfo it sets equals, field by field, the userInfo that was saved.
C10_RoundTrip ==
  [][\A r \in pending :
       (Profile_fetchUserData_settle(r) /\ r.after # <<>>)
         => \A k \in DOMAIN r.after[1] : profile'.userInfo[k] = r.after[1][k]]_vars
\* a freshly mounted Profile whose fetch has been served after a save that
\* changed nombre away from the registered value
C10_Witness ==
  \E r \in pending :
    /\ r.op = "getDoc" /\ r.read /\ r.after # <<>>
    /\ signedUp # <<>> /\ r.after[1].nombre # signedUp[1].nombre
    /\ r.snap # <<>> /\ r.snap[1].nombre = r.after[1].nombre
    /\ Shows("Profile") /\ profile.userInfo = userInfoInit /\ ~profile.isSaving

\* C11: the profile write of Register.handleSubmit is issued only by a step in
\* which createUserWithEmailAndPassword succeeds (a step where the credential
\* creation fails issues none), and both the document key and the uid field of
\* the written document are the uid of the account that step created.
C11_WriteOnlyAfterCredential ==
  [][\A w \in pending' \ pending :
       w.op = "setDoc" =>
         \E r \in pending \ pending' :
           /\ r.op = "createUser"
           /\ \E a \in accounts' \ accounts :
                /\ a.email = r.form.email
                /\ w.uid = a.uid
                /\ w.data.uid = a.uid
                /\ authUser' = a.uid]_vars
\* the credential exists, the collaborator has signed the user in and the
\* profile write keyed by the new uid is awaiting its outcome
C11_Witness ==
  \E w \in pending :
    /\ w.op = "setDoc"
    /\ \E a \in accounts : a.uid = w.uid /\ a.email = w.data.email
    /\ authUser = w.uid
    /\ users[w.uid] = <<>>

\* C12: while the session is resolving (loading = TRUE) the screen is the
\* neutral waiting view, App and AuthPage yield the waiting view for every
\* path and every value of user, and no step changes the location.
C12_WaitingWhileLoading ==
  /\ [](loading =>
          /\ Screen = Waiting
          /\ \A p \in Paths : \A u \in Uids \cup {NoUser} :
               App(p, u, TRUE) = Waiting /\ AuthPage(u, TRUE) = Waiting)
  /\ [][loading => path' = path]_vars
\* the application was opened at a guarded path and the session is resolving
C12_Witness == loading /\ path = "/profile" /\ user = NoUser /\ Screen = Waiting

\* C13: with the session settled and a user signed in, the auth screen "/"
\* yields a redirect to "/dashboard", and the login and register forms are not
\* on screen at any path.
C13_AuthenticatedLeavesAuthScreen ==
  (~loading /\ user # NoUser) =>
     /\ App("/", user, loading) = NavigateTo("/dashboard")
     /\ (path = "/" => Screen = NavigateTo("/dashboard"))
     /\ ~Shows("AuthForms")
\* a signed-in user is at the auth screen
C13_Witness == ~loading /\ user # NoUser /\ path = "/" /\ authUser = user

(***************************************************************************)
(* Properties of the error paths                                           *)
(***************************************************************************)
\* the text shown embeds the string s (a template literal's ${s})
Mentions(text, s) == \E i \in DOMAIN text : text[i] = s

\* C14 (as claimed): when the text generation request gets no response, the
\* text the panel then shows names the attempted URL, API_BASE_URL + "/generate".
C14_UnreachableNamesUrl ==
  [][\A r \in InFlight("generate") :
       TextGenerator_rejected(r, NoResponse)
         => /\ r.url = API_BASE_URL \o "/generate"
            /\ Mentions(textGenerator'.generatedText, r.url)]_vars

\* the panels whose submit handler is modelled with a catch block, and for
\* each the step "request r was rejected with error" and the message the user
\* then sees
Rejected(panel, r, error) ==
  CASE panel = "TextGenerator" -> TextGenerator_rejected(r, error)
    [] panel = "ImageGenerator" -> ImageGenerator_rejected(r, error)
    [] panel = "PromptForm" -> PromptForm_rejected(r, error)
    [] panel = "KnowledgeQA" -> KnowledgeQA_rejected(r, error)
    [] panel = "ResponseComparison" -> ResponseComparison_rejected(r, error)
\* C15 (as claimed): in every generation panel, when a submit is rejected with
\* an error response that carries a detail, the message then shown (the result
\* text of the panel, the alert for the image panel) contains that detail.
C15_DetailShownVerbatim ==
  [][\A panel \in GenerationPanels : \A r \in inflight :
       \A status \in ErrorStatuses : \A detail \in Details \ {Empty} :
         Rejected(panel, r, ErrorResponse(status, detail))
           => \E i \in DOMAIN detail :
                \/ Mentions(textGenerator'.generatedText, detail[i]) /\ panel = "TextGenerator"
                \/ Mentions(alertMsg', detail[i]) /\ panel = "ImageGenerator"
                \/ Mentions(promptForm'.response, detail[i]) /\ panel = "PromptForm"
                \/ Mentions(knowledgeQA'.response, detail[i]) /\ panel = "KnowledgeQA"
                \/ /\ panel = "ResponseComparison"
                   /\ Mentions(responseComparison'.ragResponse, detail[i])
                   /\ Mentions(responseComparison'.simpleResponse, detail[i])]_vars

\* C16 (as claimed): when the add-to-knowledge-base request is rejected, the
\* notice then shown is a failure notice: a notice is shown and it is neither
\* of the "articulos agregados" notices.
C16_AddFailureSurfaced ==
  [][\A r \in InFlight("add-articles") : \A error \in AxiosErrors :
       ArticleSearch_addRejected(r, error)
         => /\ alertMsg' # Empty
            /\ \A n \in 0..Len(mockArticles) :
                 alertMsg' \notin {ArticleSearch_addedNotice(n),
                                   ArticleSearch_simulatedNotice(n)}]_vars

\* the articles a backend search can return
ReturnedArticles ==
  UNION {{FoundArticles([id |-> id], n)[k] : k \in 1..n} :
           id \in 1..MaxRequests, n \in 1..MaxArticles}

\* C17 (as claimed): when the article search request is rejected, a failure
\* message is shown to the user and the list holds only articles that a
\* backend search returned.
C17_SearchFailureSurfaced ==
  [][\A r \in InFlight("search-articles") : \A error \in AxiosErrors :
       ArticleSearch_searchRejected(r, error)
         => /\ alertMsg' # Empty
            /\ \A i \in DOMAIN articleSearch'.articles :
                 articleSearch'.articles[i] \in ReturnedArticles]_vars

\* C18 (as claimed): when the getDoc of the mount fetch rejects, the Profile
\* component shows a message to the user and leaves the fields as they are.
C18_FetchFailureSurfaced ==
  [][\A r \in pending :
       Profile_fetchUserData_reject(r)
         => alertMsg' # Empty /\ profile'.userInfo = profile.userInfo]_vars

\* C19: handleSave writes the userInfo on screen to the document of the
\* session uid; when the write succeeds the stored document holds every saved
\* field and the editor that called returns to viewing; when it fails the
\* stored document, the fields on screen and isEditing stay as they are; in
\* both cases the editor that called ends with isSaving = FALSE.
C19_SaveOutcome ==
  [][/\ Profile_handleSave =>
          \E w \in pending' \ pending :
             w.op = "updateDoc" /\ w.uid = user /\ w.data = profile.userInfo
     /\ \A r \in pending :
          /\ Profile_handleSave_resolved(r) =>
               /\ \A k \in DOMAIN r.userInfo : users'[r.uid][1][k] = r.userInfo[k]
               /\ r.live => ~profile'.isEditing /\ ~profile'.isSaving
          /\ Profile_handleSave_rejected(r) =>
               /\ users' = users
               /\ profile'.userInfo = profile.userInfo
               /\ profile'.isEditing = profile.isEditing
               /\ r.live => ~profile'.isSaving]_vars
\* a save has just failed in the editor that issued it: the failure notice is
\* up, the editor is still editing a changed nombre and is no longer saving
C19_Witness ==
  /\ Shows("Profile")
  /\ alertMsg = <<"Error al actualizar el perfil">>
  /\ profile.isEditing /\ ~profile.isSaving
  /\ profile.userInfo.nombre # ""
  /\ users[user] # <<>>
  /\ \A r \in pending : r.op # "updateDoc"

\* a text of the comparison panel that reports an error: it opens with one of
\* the error headings of the catch block
IsErrorText(text) ==
  /\ text # Empty
  /\ text[1] \in {ErrorServidor(Empty)[1], ErrorConexion("")[1],
                  ErrorInesperado(Empty)[1], ErrorConexionSimple[1]}
\* the answers the backend computes for the two sides of a compare
BackendAnswers ==
  {Answer(side, [id |-> id]) : side \in {"rag", "simple"}, id \in 1..MaxRequests}
\* C20: the comparison is one transport call, so both sides fail together.
\* When handleCompare's request is rejected, ragResponse and simpleResponse
\* both hold error text and neither holds a backend answer; and in no state
\* does one side hold a backend answer while the other holds error text.
C20_BothSidesFailTogether ==
  /\ [](LET rag == responseComparison.ragResponse
            simple == responseComparison.simpleResponse
        IN /\ ~(rag \in BackendAnswers /\ IsErrorText(simple))
           /\ ~(simple \in BackendAnswers /\ IsErrorText(rag)))
  /\ [][\A r \in InFlight("rag-compare") : \A error \in AxiosErrors :
          ResponseComparison_rejected(r, error)
            => /\ IsErrorText(responseComparison'.ragResponse)
               /\ IsErrorText(responseComparison'.simpleResponse)
               /\ responseComparison'.ragResponse \notin BackendAnswers
               /\ responseComparison'.simpleResponse \notin BackendAnswers]_vars
\* a compare has just failed for want of a response: both sides show their
\* connection error, the RAG side naming the URL
C20_Witness ==
  /\ activePanel = "ResponseComparison"
  /\ responseComparison.connectionStatus = "error"
  /\ ~responseComparison.isLoading
  /\ responseComparison.ragResponse = ErrorConexion(API_BASE_URL \o "/rag/compare")
  /\ responseComparison.simpleResponse = ErrorConexionSimple
  /\ InFlight("rag-compare") = {}

(***************************************************************************)
(* Properties of all six panels                                            *)
(***************************************************************************)
\* the text the mounted panel submits (prompt, question or search topic)
SubmitText ==
  CASE activePanel = "TextGenerator" -> textGenerator.prompt
    [] activePanel = "ImageGenerator" -> imageGenerator.prompt
    [] activePanel = "PromptForm" -> promptForm.prompt
    [] activePanel = "KnowledgeQA" -> knowledgeQA.question
    [] activePanel = "ResponseComparison" -> responseComparison.question
    [] OTHER -> articleSearch.searchTerm
\* the disabled attribute of the mounted panel's submit button
SubmitDisabled ==
  CASE activePanel = "TextGenerator" -> TextGenerator_disabled
    [] activePanel = "ImageGenerator" -> ImageGenerator_disabled
    [] activePanel = "PromptForm" -> PromptForm_disabled
    [] activePanel = "KnowledgeQA" -> KnowledgeQA_disabled
    [] activePanel = "ResponseComparison" -> ResponseComparison_disabled
    [] OTHER -> ArticleSearch_searchDisabled
\* the requests the submit operations of the six panels issue
AllSubmitOps == SubmitOps \cup {"search-articles"}

\* C21: no panel stays in submitting.  Whenever a request started by a submit
\* settles, by an answer or by any rejection, the busy flag of the panel is
\* false afterwards, and with a non-blank text the submit button is enabled.
C21_NeverStuck ==
  [][\A r \in inflight :
       (r.op \in AllSubmitOps /\ Settles(r))
         => /\ ~Busy'
            /\ Truthy(Trim(SubmitText')) => ~SubmitDisabled']_vars
\* the Q&A panel after a failed submit: not busy, the question still there,
\* the submit button enabled and a further request possible
C21_Witness ==
  /\ activePanel = "KnowledgeQA"
  /\ knowledgeQA.connectionStatus = "error"
  /\ ~knowledgeQA.isLoading
  /\ Truthy(Trim(knowledgeQA.question))
  /\ ~KnowledgeQA_disabled
  /\ inflight = {} /\ CanIssue

\* a submit handler of the mounted panel runs
SubmitRuns ==
  \/ TextGenerator_handleGenerate
  \/ ImageGenerator_handleGenerate
  \/ PromptForm_handleSubmit
  \/ KnowledgeQA_handleSubmit
  \/ ResponseComparison_handleCompare
  \/ ArticleSearch_handleSearch

\* C24: every generation, RAG or search request in flight carries a prompt,
\* question or topic that is non-empty after trimming; a submit with a blank
\* text adds no request and changes nothing of the panels' state.
C24_NoBlankRequest ==
  /\ [](\A r \in inflight : r.op \in AllSubmitOps => Truthy(Trim(r.text)))
  /\ [][(~Truthy(Trim(SubmitText)) /\ SubmitRuns) => UNCHANGED panelState]_vars

\* Enter was pressed in ArticleSearch on a whitespace-only topic
C24_Witness ==
  /\ activePanel = "ArticleSearch"
  /\ articleSearch.searchTerm = <<" ">>
  /\ alertMsg = <<"Por favor ingresa un termino de busqueda">>
  /\ inflight = {}

\* C25: every index in selectedArticles is an index of the current articles
\* list (0 <= index < articles.length), and no add request forwards an
\* undefined entry.
C25_SelectionValid ==
  /\ \A k \in DOMAIN articleSearch.selectedArticles :
        articleSearch.selectedArticles[k] \in 0..(Len(articleSearch.articles) - 1)
  /\ \A r \in InFlight("add-articles") :
        \A k \in DOMAIN r.body : r.body[k] # "undefined"

\* C29: in the RAG Q&A panel a connectionStatus of "error" goes with no source
\* documents and documentsUsed 0, and a pending request goes with an empty
\* response, no source documents and documentsUsed 0; in the comparison panel
\* an error or a pending request goes with documentsUsed 0, no comparison
\* metrics and no documents.
C29_NoStaleDocuments ==
  /\ knowledgeQA.connectionStatus = "error"
        => knowledgeQA.sourceDocuments = <<>> /\ knowledgeQA.documentsUsed = 0
  /\ knowledgeQA.isLoading
        => /\ knowledgeQA.response = Empty
           /\ knowledgeQA.sourceDocuments = <<>> /\ knowledgeQA.documentsUsed = 0
  /\ (responseComparison.connectionStatus = "error" \/ responseComparison.isLoading)
        => /\ responseComparison.documentsUsed = 0
           /\ responseComparison.comparisonMetrics = "null"
           /\ responseComparison.ragDocuments = <<>>

\* a question is pending in the RAG Q&A panel after the previous one failed
C29_Witness ==
  /\ activePanel = "KnowledgeQA"
  /\ knowledgeQA.connectionStatus = "error"
  /\ knowledgeQA.isLoading
  /\ InFlight("rag-generate") # {}

\* C30: when a /generate-image request is answered with imagen, url_supabase
\* or both, the panel shows the result section, and the link whenever the
\* answer carried url_supabase.
C30_ResultRendered ==
  [][\A r \in inflight :
       (/\ ImageGenerator_resolved(r)
        /\ Truthy(imageGenerator'.generatedImage) \/ Truthy(imageGenerator'.imageUrl))
         => /\ ImageGenerator_resultShown'
            /\ Truthy(imageGenerator'.imageUrl) => ImageGenerator_linkShown']_vars

(***************************************************************************)
(* Properties of sign-out and sign-in                                      *)
(***************************************************************************)
\* the auth screen is rendered for a visitor without a session
OnAuthScreen == path = "/" /\ user = NoUser /\ Shows("AuthForms")

\* C22: when the navbar's handleLogout completes, the session is null, the
\* route is "/" and no alert is raised, whether or not a session existed
\* before; completing it once more on the auth screen with the session
\* already null changes neither session, route nor forms.  And whichever way
\* the session ended (navbar or the dashboard's own button), a visitor without
\* a session ends up on the auth screen at "/".
C22_LogoutStep ==
  \A r \in pending :
    Navbar_handleLogout_settle(r)
      => /\ authUser' = NoUser
         /\ path' = "/"
         /\ alertMsg' = alertMsg
         /\ (authUser = NoUser /\ OnAuthScreen)
               => UNCHANGED <<authUser, user, loading, path, mode, form, login>>

C22_LogoutLeavesAuthScreen ==
  /\ [][C22_LogoutStep]_vars
  /\ (authUser = NoUser /\ path # "/agente" /\ alertMsg = Empty)
        ~> (OnAuthScreen \/ authUser # NoUser \/ alertMsg # Empty)

\* a handleLogout invoked with the session already null has completed: the
\* visitor of /agente stands on the auth screen
C22_Witness ==
  /\ authUser = NoUser /\ user = NoUser /\ ~loading
  /\ \E r \in pending : r.op = "signOut"

\* C23: a rejected sign-in alerts the error's message, navigates nowhere and
\* leaves the session as it was; after a resolved sign-in the user reaches the
\* dashboard, whether the auth listener or navigate("/dashboard") takes effect
\* first, unless the session is ended again or an alert is up.
C23_RejectedStep ==
  \A r \in pending : \A err \in SignInErrors :
    Login_handleLogin_rejected(r, err)
      => /\ Mentions(alertMsg', err[1])
         /\ path' = path
         /\ authUser' = authUser /\ user' = user

OnDashboard == path = "/dashboard" /\ user # NoUser /\ Shows("Dashboard")

C23_LoginOutcome ==
  /\ [][C23_RejectedStep]_vars
  /\ (authUser # NoUser /\ user = NoUser /\ ~loading /\ alertMsg = Empty)
        ~> (OnDashboard \/ authUser = NoUser \/ alertMsg # Empty)

\* signed in through the login form and on the dashboard
C23_Witness == OnDashboard /\ authUser = user /\ pending = {}

\* C27: while the Profile editor is in editing mode and a field has been
\* changed, a fetch result that arrives does not change the displayed values.
C27_EditsSurviveFetch ==
  [][\A r \in pending :
       (/\ Profile_fetchUserData_settle(r)
        /\ profile.isEditing
        /\ profile.userInfo # userInfoInit)
         => profile'.userInfo = profile.userInfo]_vars

\* C28: the password of the Register form goes to createUserWithEmailAndPassword
\* only.  The document handed to setDoc has exactly the keys nombre, apellido,
\* email, tipo, bio and uid; no stored document, no profile shown in the
\* editor and no updateDoc payload has a password key; the only pending call
\* that carries the form is createUser.
C28_PasswordOnlyToCreateUser ==
  /\ \A r \in pending :
        /\ r.op = "setDoc" =>
              DOMAIN r.data = {"nombre", "apellido", "email", "tipo", "bio", "uid"}
        /\ r.op = "updateDoc" => "password" \notin DOMAIN r.data
        /\ "form" \in DOMAIN r => r.op = "createUser"
  /\ \A u \in Uids : users[u] # <<>> => "password" \notin DOMAIN users[u][1]
  /\ "password" \notin DOMAIN profile.userInfo

\* registered, the document stored, and a profile save written
C28_Witness ==
  /\ accounts # {}
  /\ users[NewUid] # <<>>
  /\ lastSave # <<>>
  /\ pending = {}

(***************************************************************************)
(* Properties of routing                                                   *)
(***************************************************************************)
\* what is rendered after following at most n redirects from path p with the
\* settled session u; a redirect is left when the n are used up
RECURSIVE Lands(_, _, _)
Lands(p, u, n) ==
  LET e == App(p, u, FALSE)
  IN IF e.kind = "redirect" /\ n > 0 THEN Lands(e.to, u, n - 1) ELSE e

\* the paths with a route of their own
RoutedPaths == {"/", "/dashboard", "/text-generator", "/image-generator", "/profile",
                "/agente"}

\* C26: with the session settled, following the redirects from any path ends
\* on a rendered component before a path repeats; a path without a route ends
\* on the auth forms without a session and on the dashboard with one.  A
\* redirect on screen is followed until a component is rendered (unless an
\* alert is up).
C26_RoutingSettles ==
  /\ [](~loading =>
          \A p \in Paths :
            LET e == Lands(p, user, Cardinality(Paths))
            IN /\ e.kind = "component"
               /\ p \notin RoutedPaths =>
                     e = IF user = NoUser THEN Element("AuthForms")
                         ELSE Element("Dashboard"))
  /\ (Screen.kind = "redirect" /\ alertMsg = Empty)
        ~> (Screen.kind = "component" \/ alertMsg # Empty)

\* the signed-in user clicked the navbar's /ai-services item: the catch-all
\* route renders its redirect
C26_Witness ==
  /\ ~loading /\ user # NoUser /\ path = "/ai-services"
  /\ Screen = NavigateTo("/")

====
